---- MODULE Spec2Model ----
(***************************************************************************)
(* Request orchestration and response normalisation of the three backends  *)
(* of the repository:                                                      *)
(*   - Sentiment-Analyzer-with-Mistral/backend/main.py  ("sentiment")      *)
(*   - product-review-analyzer/backend/main.py          ("review")         *)
(*   - llama-text-summarizer/backend/main.py            ("summarizer")     *)
(*                                                                         *)
(* Strings are sequences of atoms.  Texts and model replies are sequences  *)
(* of one-character atoms, so that strip(), lower() and `in` are computed  *)
(* character by character as Python computes them.  A fixed message of the *)
(* code ("Error: Request timed out", a label, an HTTPException detail) is  *)
(* one atom.                                                               *)
(***************************************************************************)
EXTENDS Integers, Sequences, FiniteSets, TLC

VARIABLES
    app,            \* which backend serves the call
    pc,             \* position of the endpoint handler
    requests,       \* the items of the batch request body, as submitted
    idx,            \* 1-based index of the item the batch loop is at
    results,        \* the handler's local list `results`
    success_count,  \* the handler's local counter
    error_count,    \* the handler's local counter (review analyzer only)
    gathered,       \* review analyzer: task -> what asyncio.gather holds for the current item
    firstExc,       \* review analyzer: the exception gather propagates (first raised)
    inflight,       \* inference requests sent and not yet completed:
                    \* <<item, task, prompt>>
    served,         \* per item, the failures the inference server answered its calls with,
                    \* in the order the calls ended, up to the moment the item was recorded
    response,       \* the envelope returned to the HTTP caller
    callResult,     \* single client call: what the client gave its caller
    issued,         \* batch: every inference request posted so far, in order
    history         \* frontend: st.session_state.history (analysis_history)

vars == <<app, pc, requests, idx, results, success_count, error_count,
          gathered, firstExc, inflight, served, response, callResult, issued,
          history>>

NONE == [kind |-> "none"]

(***************************************************************************)
(* Bounds of the model.                                                    *)
(***************************************************************************)
MaxBatch == 2
MaxChunks == 3
MaxOverflow == 2

(***************************************************************************)
(* Character strings.                                                      *)
(***************************************************************************)
UpperCase == <<"A","B","C","D","E","F","G","H","I","J","K","L","M",
               "N","O","P","Q","R","S","T","U","V","W","X","Y","Z">>
LowerCase == <<"a","b","c","d","e","f","g","h","i","j","k","l","m",
               "n","o","p","q","r","s","t","u","v","w","x","y","z">>

Whitespace == {" ", "\n", "\t"}

\* str.lower(), one character
LowerChar(c) ==
    IF \E i \in 1..26 : UpperCase[i] = c
    THEN LowerCase[CHOOSE i \in 1..26 : UpperCase[i] = c]
    ELSE c

\* str.lower()
Lower(s) == [i \in 1..Len(s) |-> LowerChar(s[i])]

RECURSIVE LStrip(_)
LStrip(s) == IF s # <<>> /\ Head(s) \in Whitespace THEN LStrip(Tail(s)) ELSE s

RECURSIVE RStrip(_)
RStrip(s) ==
    IF s # <<>> /\ s[Len(s)] \in Whitespace THEN RStrip(SubSeq(s, 1, Len(s) - 1)) ELSE s

\* str.strip()
Strip(s) == RStrip(LStrip(s))

\* Python's `w in s` on strings
Contains(s, w) ==
    \E i \in 1..(Len(s) - Len(w) + 1) : SubSeq(s, i, i + Len(w) - 1) = w

positive == <<"p","o","s","i","t","i","v","e">>
negative == <<"n","e","g","a","t","i","v","e">>
neutral  == <<"n","e","u","t","r","a","l">>

\* the labels "Positive", "Negative", "Neutral"
Positive == <<"P","o","s","i","t","i","v","e">>
Negative == <<"N","e","g","a","t","i","v","e">>
Neutral  == <<"N","e","u","t","r","a","l">>

(***************************************************************************)
(* What the inference server (and the transport to it) does with one       *)
(* POST /api/generate.  kind:                                              *)
(*   ok          2xx, JSON object whose "response" is the string `body`    *)
(*   nofield     2xx, JSON object with no "response" key                   *)
(*   badjson     2xx, body that is not JSON                                *)
(*   status      a non-2xx status                                          *)
(*   conn        connection refused / unreachable                          *)
(*   conntimeout no connection within the timeout                          *)
(*   timeout     no response within the timeout                            *)
(*   reqerr      any other transport error                                 *)
(***************************************************************************)
FailureKinds == {"conn", "conntimeout", "timeout", "reqerr", "status", "badjson"}

Outcome(kind, body) == [kind |-> kind, body |-> body]

\* str(e) of the exception the HTTP library raises
ExcText(kind) ==
    CASE kind = "conn"        -> "Connection refused"
      [] kind = "conntimeout" -> "Connect timed out"
      [] kind = "timeout"     -> "Read timed out"
      [] kind = "reqerr"      -> "Transport error"
      [] kind = "status"      -> "500 Server Error"
      [] kind = "badjson"     -> "Expecting value"
      [] kind = "nofield"     -> "'response'"
      [] OTHER                -> ""

\* The classes the exception raised by `requests` is an instance of, for the
\* except clauses of analyze_text and call_ollama.
RequestsClasses(kind) ==
    CASE kind = "conn"        -> {"ConnectionError", "Exception"}
      [] kind = "conntimeout" -> {"ConnectionError", "Timeout", "Exception"}
      [] kind = "timeout"     -> {"Timeout", "Exception"}
      [] kind = "reqerr"      -> {"Exception"}
      [] kind = "status"      -> {"Exception"}
      [] kind = "badjson"     -> {"Exception"}
      [] kind = "nofield"     -> {"Exception"}
      [] OTHER                -> {}

\* The classes the exception raised by `httpx` is an instance of, for the
\* except clauses of query_ollama.
HttpxClasses(kind) ==
    CASE kind = "conn"        -> {"ConnectError", "RequestError", "Exception"}
      [] kind = "conntimeout" -> {"TimeoutException", "RequestError", "Exception"}
      [] kind = "timeout"     -> {"TimeoutException", "RequestError", "Exception"}
      [] kind = "reqerr"      -> {"RequestError", "Exception"}
      [] kind = "status"      -> {"Exception"}
      [] kind = "badjson"     -> {"Exception"}
      [] OTHER                -> {}

\* What a client function gives its caller: a returned value or a raised
\* HTTPException(status_code, detail).
Return(v) == [raised |-> FALSE, status |-> 0, detail |-> <<>>, value |-> v]
Raise(code, detail) == [raised |-> TRUE, status |-> code, detail |-> detail, value |-> <<>>]

\* Optional[str]: None, or a string
Null == [null |-> TRUE, str |-> <<>>]
Some(s) == [null |-> FALSE, str |-> s]

\* str(e) of an HTTPException: "<status_code>: <detail>"
HTTPExceptionStr(r) == <<ToString(r.status), ": ">> \o r.detail

(***************************************************************************)
(* Sentiment analyzer: analyze_text.                                       *)
(***************************************************************************)
\* CleanSentiment matching on the reply as it came, not on its lower-cased copy
CleanSentimentCaseSensitive(sentiment) ==
    IF Contains(sentiment, positive) THEN Positive
    ELSE IF Contains(sentiment, negative) THEN Negative
    ELSE IF Contains(sentiment, neutral) THEN Neutral
    ELSE sentiment

\* CleanSentiment that hands back the lower-cased copy when no label matches
CleanSentimentLowered(sentiment) ==
    LET sentiment_lower == Lower(sentiment)
    IN  IF Contains(sentiment_lower, positive) THEN Positive
        ELSE IF Contains(sentiment_lower, negative) THEN Negative
        ELSE IF Contains(sentiment_lower, neutral) THEN Neutral
        ELSE sentiment_lower

\* CleanSentiment testing "negative" before "positive"
CleanSentimentNegativeFirst(sentiment) ==
    LET sentiment_lower == Lower(sentiment)
    IN  IF Contains(sentiment_lower, negative) THEN Negative
        ELSE IF Contains(sentiment_lower, positive) THEN Positive
        ELSE IF Contains(sentiment_lower, neutral) THEN Neutral
        ELSE sentiment

\* lines 98-105: clean up the response to get just the sentiment word
CleanSentiment(sentiment) ==
    LET sentiment_lower == Lower(sentiment)
    IN  IF Contains(sentiment_lower, positive) THEN Positive
        ELSE IF Contains(sentiment_lower, negative) THEN Negative
        ELSE IF Contains(sentiment_lower, neutral) THEN Neutral
        ELSE sentiment

SentimentEntry(text, sentiment, success) ==
    [text |-> text, sentiment |-> sentiment, success |-> success]

\* analyze_text without its last `except Exception` clause
analyze_text_uncaught(text, out) ==
    IF out.kind \in {"ok", "nofield"}
    THEN Return(SentimentEntry(text, CleanSentiment(Strip(out.body)), TRUE))
    ELSE IF "ConnectionError" \in RequestsClasses(out.kind)
    THEN Return(SentimentEntry(text, <<"Error: Cannot connect to Ollama">>, FALSE))
    ELSE IF "Timeout" \in RequestsClasses(out.kind)
    THEN Return(SentimentEntry(text, <<"Error: Request timed out">>, FALSE))
    ELSE Raise(500, <<ExcText(out.kind)>>)

analyze_text(text, out) ==
    IF out.kind \in {"ok", "nofield"}
    THEN LET raw == IF out.kind = "ok" THEN out.body ELSE <<>>
             sentiment == Strip(raw)
         IN  Return(SentimentEntry(text, CleanSentiment(sentiment), TRUE))
    ELSE IF "ConnectionError" \in RequestsClasses(out.kind)
    THEN Return(SentimentEntry(text, <<"Error: Cannot connect to Ollama">>, FALSE))
    ELSE IF "Timeout" \in RequestsClasses(out.kind)
    THEN Return(SentimentEntry(text, <<"Error: Request timed out">>, FALSE))
    ELSE Return(SentimentEntry(text, <<"Error: ", ExcText(out.kind)>>, FALSE))

(***************************************************************************)
(* Sentiment analyzer frontend: get_sentiment_display.                     *)
(***************************************************************************)
Styled(class, icon, sentiment) ==
    <<"<div class=\"", class, "\">", icon, " ">> \o sentiment \o <<"</div>">>

get_sentiment_display(sentiment) ==
    LET sentiment_lower == Lower(sentiment)
    IN  IF Contains(sentiment_lower, positive)
        THEN Styled("sentiment-positive", "green", sentiment)
        ELSE IF Contains(sentiment_lower, negative)
        THEN Styled("sentiment-negative", "red", sentiment)
        ELSE IF Contains(sentiment_lower, neutral)
        THEN Styled("sentiment-neutral", "yellow", sentiment)
        ELSE Styled("sentiment-error", "white", sentiment)

(***************************************************************************)
(* Review analyzer: query_ollama.                                          *)
(***************************************************************************)
\* query_ollama reading the reply with response.json()["response"]
query_ollama_subscript(out) ==
    IF out.kind = "ok"
    THEN Return(Strip(out.body))
    ELSE IF "TimeoutException" \in HttpxClasses(out.kind)
    THEN Raise(504, <<"Request timed out. The model is taking too long to respond.">>)
    ELSE IF "ConnectError" \in HttpxClasses(out.kind)
    THEN Raise(503, <<"Could not connect to Ollama. Make sure it's running on localhost:11434">>)
    ELSE IF "RequestError" \in HttpxClasses(out.kind)
    THEN Raise(503, <<"Service Unavailable: Could not connect to Ollama.">>)
    ELSE Return(<<"Error">>)

query_ollama(out) ==
    IF out.kind \in {"ok", "nofield"}
    THEN Return(Strip(IF out.kind = "ok" THEN out.body ELSE <<>>))
    ELSE IF "TimeoutException" \in HttpxClasses(out.kind)
    THEN Raise(504, <<"Request timed out. The model is taking too long to respond.">>)
    ELSE IF "ConnectError" \in HttpxClasses(out.kind)
    THEN Raise(503, <<"Could not connect to Ollama. Make sure it's running on localhost:11434">>)
    ELSE IF "RequestError" \in HttpxClasses(out.kind)
    THEN Raise(503, <<"Service Unavailable: Could not connect to Ollama.">>)
    ELSE Return(<<"Error">>)

\* The prompt of the sentiment analyzer's analyze_text.
sentiment_prompt(text) ==
    <<"What is the sentiment of this text? Respond with ONLY one word: Positive, Negative, or Neutral.\n\nText: ">>
        \o text

\* The prompts of the review analyzer: f-strings around the product and the
\* review text.
create_sentiment_prompt(text, product) ==
    <<"Analyze the sentiment of this review for the ">> \o product
        \o <<".\nRules:\n- Return 'Positive' if the review is mostly happy or praising.\n- Return 'Negative' if the review is mostly unhappy or complaining.\n- Return 'Neutral' if the review mentions BOTH pros and cons (mixed), or is indifferent.\nReview: ">>
        \o text
        \o <<"\n\nAnswer with ONE word: Positive, Negative, or Neutral.">>

create_topic_prompt(text, product) ==
    <<"What is the main topic (e.g., Battery, Screen, Price, Service, Quality, Delivery) of this review for the ">>
        \o product
        \o <<"? Answer efficiently in 1-3 words.\n\nReview: ">>
        \o text

create_summary_prompt(text, product) ==
    <<"Summarize this review of the ">> \o product
        \o <<" in one concise sentence.\n\nReview: ">> \o text

\* the prompt of one of the three analysis tasks
create_prompt(task, text, product) ==
    CASE task = "sentiment" -> create_sentiment_prompt(text, product)
      [] task = "topic"     -> create_topic_prompt(text, product)
      [] task = "summary"   -> create_summary_prompt(text, product)

(***************************************************************************)
(* Summarizer: call_ollama.                                                *)
(***************************************************************************)
\* call_ollama with its Timeout clause before its ConnectionError clause
call_ollama_timeout_first(out) ==
    IF out.kind = "ok"
    THEN Return(out.body)
    ELSE IF "Timeout" \in RequestsClasses(out.kind)
    THEN Raise(504, <<"Ollama request timed out. The text might be too long.">>)
    ELSE IF "ConnectionError" \in RequestsClasses(out.kind)
    THEN Raise(503, <<"Cannot connect to Ollama. Please ensure Ollama is running on your machine.">>)
    ELSE Raise(500, <<"Error communicating with Ollama: ", ExcText(out.kind)>>)

call_ollama(out) ==
    IF out.kind = "ok"
    THEN Return(out.body)
    ELSE IF "ConnectionError" \in RequestsClasses(out.kind)
    THEN Raise(503, <<"Cannot connect to Ollama. Please ensure Ollama is running on your machine.">>)
    ELSE IF "Timeout" \in RequestsClasses(out.kind)
    THEN Raise(504, <<"Ollama request timed out. The text might be too long.">>)
    ELSE Raise(500, <<"Error communicating with Ollama: ", ExcText(out.kind)>>)

(***************************************************************************)
(* Batch endpoints: POST /analyze/batch (sentiment analyzer) and           *)
(* POST /analyze_batch/ (review analyzer).                                 *)
(***************************************************************************)
Tasks == {"sentiment", "topic", "summary"}

\* Texts and product names a client may submit.
Texts == { <<"a","b","c">>, <<" ","a","b"," ">>, <<>> }
\* product_name of a submitted item: absent, or a string
ProductNames == { Null, Some(<<>>), Some(<<"T","V">>) }

Item(text, product_name) == [text |-> text, product_name |-> product_name]

\* texts: List[str] of the sentiment analyzer; reviews: List[ReviewItem] of the
\* review analyzer
\* ReviewItem: text min_length=3, max_length=5000; product_name max_length=100
MIN_REVIEW_LENGTH == 3
MAX_REVIEW_LENGTH == 5000
MAX_PRODUCT_LENGTH == 100
\* BatchReviewRequest: reviews min_length=1, max_length=100
MIN_BATCH == 1
MAX_BATCH == 100

\* a review one character over the limit, and a product name one over its limit
LongReview == [k \in 1..(MAX_REVIEW_LENGTH + 1) |-> "x"]
LongProduct == [k \in 1..(MAX_PRODUCT_LENGTH + 1) |-> "n"]

ItemsOf(a) ==
    IF a = "sentiment"
    THEN { Item(t, Null) : t \in Texts }
    ELSE { Item(<<"a","b","c">>, Null), Item(<<" ","a","b"," ">>, Some(<<>>)),
           Item(<<>>, Some(<<"T","V">>)), Item(LongReview, Null),
           Item(<<"a","b","c">>, Some(LongProduct)) }

RequestsOf(a) == UNION { [1..n -> ItemsOf(a)] : n \in 0..MaxBatch }

\* What the inference server does with the calls of a batch, and its reply.
BatchKinds == {"ok", "conn", "timeout", "status"}
BatchReply == <<"P","o","s","i","t","i","v","e",".","\n">>

\* the default of the product_name field
Product == <<"P","r","o","d","u","c","t">>

\* product_name: str = Field(default="Product", ...): the field of the parsed item
ProductField(item) ==
    IF item.product_name.null THEN Product ELSE item.product_name.str

ValidReviewItem(item) ==
    /\ Len(item.text) >= MIN_REVIEW_LENGTH
    /\ Len(item.text) <= MAX_REVIEW_LENGTH
    /\ Len(ProductField(item)) <= MAX_PRODUCT_LENGTH

\* validation that looked at the first review only
ValidBatchFirstItem(a, reqs) ==
    IF a = "sentiment"
    THEN TRUE
    ELSE /\ Len(reqs) >= MIN_BATCH
         /\ Len(reqs) <= MAX_BATCH
         /\ ValidReviewItem(reqs[1])

\* Request-body validation done by the framework before the handler runs.
ValidBatch(a, reqs) ==
    IF a = "sentiment"
    THEN TRUE
    ELSE /\ Len(reqs) >= MIN_BATCH
         /\ Len(reqs) <= MAX_BATCH
         /\ \A i \in 1..Len(reqs) : ValidReviewItem(reqs[i])

\* the product taken from the field as it is, without `or "Product"`
ProductOfField(item) == ProductField(item)

\* product = item.product_name or "Product"
ProductOf(item) == IF ProductField(item) = <<>> THEN Product ELSE ProductField(item)

\* the text echoed as submitted
ReviewTextRaw(item) == item.text

\* text = item.text.strip()
ReviewText(item) == Strip(item.text)

\* What the inference server replies to task t of a review: a label, a topic,
\* and for the summary the review itself.
ReplyTo(t, item) ==
    CASE t = "sentiment" -> BatchReply
      [] t = "topic"     -> <<"B","a","t","t","e","r","y"," ">>
      [] t = "summary"   -> item.text

\* the entry with the topic and the summary in each other's place
SuccessEntrySwapped(item, g) ==
    [review |-> ReviewText(item), product_name |-> ProductOf(item),
     sentiment |-> g["sentiment"].value, topic |-> g["summary"].value,
     summary |-> g["topic"].value,
     error |-> Null]

\* the entry appended in the try body of the review analyzer's loop
SuccessEntry(item, g) ==
    [review |-> ReviewText(item), product_name |-> ProductOf(item),
     sentiment |-> g["sentiment"].value, topic |-> g["topic"].value,
     summary |-> g["summary"].value,
     error |-> Null]

\* the entry appended by the except clause
ErrorEntry(item, exc) ==
    [review |-> ReviewText(item), product_name |-> ProductOf(item),
     sentiment |-> <<"Error">>, topic |-> <<"Error">>, summary |-> <<"Error">>,
     error |-> Some(HTTPExceptionStr(exc))]

\* the loop re-raising HTTPException as analyze_review does (`except HTTPException: raise`)
CaughtUnlessHTTP(exc) == exc.status = 0

\* `except Exception as e` of the review analyzer's loop: what it catches
CaughtInBatch(exc) == TRUE

\* what gather holds of one call: not ended yet, or its returned value
Pending == [done |-> FALSE, value |-> <<>>]
Got(v) == [done |-> TRUE, value |-> v]
NoGather == [t \in Tasks |-> Pending]
NoExc == Return(<<>>)

BatchInit ==
    /\ app \in {"sentiment", "review"}
    /\ requests \in RequestsOf(app)
    /\ pc = "received"
    /\ idx = 1
    /\ results = <<>>
    /\ success_count = 0
    /\ error_count = 0
    /\ gathered = NoGather
    /\ firstExc = NoExc
    /\ inflight = {}
    /\ served = [i \in 1..Len(requests) |-> <<>>]
    /\ response = NONE
    /\ callResult = NONE
    /\ issued = <<>>
    /\ history = <<>>

\* The framework rejects a body that fails validation: the handler never runs.
Reject ==
    /\ pc = "received"
    /\ ~ValidBatch(app, requests)
    /\ pc' = "rejected"
    /\ response' = [kind |-> "error", status |-> 422]
    /\ UNCHANGED <<app, issued, history, requests, idx, results, success_count, error_count,
                   gathered, firstExc, inflight, served, callResult>>

\* The handler starts: results = [], success_count = 0, error_count = 0.
Accept ==
    /\ pc = "received"
    /\ ValidBatch(app, requests)
    /\ pc' = "loop"
    /\ UNCHANGED <<app, issued, history, requests, idx, results, success_count, error_count,
                   gathered, firstExc, inflight, served, response, callResult>>

\* The request analyze_text posts for text i of a batch.
SentRequest(i, item) == <<i, "sentiment", sentiment_prompt(item.text)>>

\* The request query_ollama posts for task t of review i of a batch.
RevRequest(i, t, item) == <<i, t, create_prompt(t, ReviewText(item), ProductOf(item))>>

\* the requests posted, had a failed call been posted once more
AfterCallRetried(log, req, kind) == IF kind = "ok" THEN log ELSE Append(log, req)

\* The requests posted, once a call has ended with outcome `kind`: the except
\* clauses of analyze_text and query_ollama return or raise, they post nothing.
AfterCall(log, req, kind) == log

\* results.append(entry), put at the front instead
PrependResult(rs, entry) == <<entry>> \o rs

\* results.append(entry)
AppendResult(rs, entry) == Append(rs, entry)

\* the environment log: a failure is appended, a success is not
Logged(log, kind) == IF kind = "ok" THEN log ELSE Append(log, kind)

\* Sentiment analyzer: analyze_text posts the request of the next text.
SentSend ==
    /\ app = "sentiment"
    /\ pc = "loop"
    /\ idx <= Len(requests)
    /\ inflight' = inflight \cup {SentRequest(idx, requests[idx])}
    /\ pc' = "wait"
    /\ issued' = Append(issued, SentRequest(idx, requests[idx]))
    /\ UNCHANGED <<app, history, requests, idx, results, success_count, error_count,
                   gathered, firstExc, served, response, callResult>>

\* SentAppend counting every result as a success
SentAppendCountAll(r) ==
    /\ results' = AppendResult(results, r.value)
    /\ success_count' = success_count + 1
    /\ idx' = idx + 1
    /\ pc' = "loop"
    /\ response' = response

\* results.append(result); if result["success"]: success_count += 1
SentAppend(r) ==
    /\ results' = AppendResult(results, r.value)
    /\ success_count' = IF r.value.success THEN success_count + 1 ELSE success_count
    /\ idx' = idx + 1
    /\ pc' = "loop"
    /\ response' = response

\* an exception leaves the handler: the framework answers 500
Escape ==
    /\ pc' = "aborted"
    /\ response' = [kind |-> "error", status |-> 500]
    /\ UNCHANGED <<results, success_count, idx>>

\* Sentiment analyzer: the blocking post ends and analyze_text returns.
SentComplete ==
    /\ app = "sentiment"
    /\ pc = "wait"
    /\ \E kind \in BatchKinds :
         LET r == analyze_text(requests[idx].text, Outcome(kind, BatchReply))
         IN  /\ served' = [served EXCEPT ![idx] = Logged(@, kind)]
             /\ issued' = AfterCall(issued, SentRequest(idx, requests[idx]), kind)
             /\ IF r.raised THEN Escape ELSE SentAppend(r)
    /\ inflight' = inflight \ {SentRequest(idx, requests[idx])}
    /\ UNCHANGED <<app, history, requests, error_count, gathered, firstExc, callResult>>

\* Review analyzer: the loop body builds the three prompts of the next item and
\* asyncio.gather starts the three query_ollama calls.
RevStart ==
    /\ app = "review"
    /\ pc = "loop"
    /\ idx <= Len(requests)
    /\ inflight' = inflight \cup { RevRequest(idx, t, requests[idx]) : t \in Tasks }
    /\ gathered' = NoGather
    /\ firstExc' = NoExc
    /\ pc' = "await"
    /\ issued' = issued \o <<RevRequest(idx, "sentiment", requests[idx]),
                       RevRequest(idx, "topic", requests[idx]),
                       RevRequest(idx, "summary", requests[idx])>>
    /\ UNCHANGED <<app, history, requests, idx, results, success_count, error_count,
                   served, response, callResult>>

\* Review analyzer: one query_ollama call of the item being awaited ends.
\* gather takes its value, or propagates its exception if it is the first raised.
RevTaskDone ==
    /\ app = "review"
    /\ pc = "await"
    /\ ~firstExc.raised
    /\ \E t \in Tasks : \E kind \in BatchKinds :
         LET r == query_ollama(Outcome(kind, ReplyTo(t, requests[idx])))
         IN  /\ RevRequest(idx, t, requests[idx]) \in inflight
             /\ inflight' = inflight \ {RevRequest(idx, t, requests[idx])}
             /\ served' = [served EXCEPT ![idx] = Logged(@, kind)]
             /\ issued' = AfterCall(issued, RevRequest(idx, t, requests[idx]), kind)
             /\ IF r.raised
                THEN firstExc' = r /\ gathered' = gathered
                ELSE gathered' = [gathered EXCEPT ![t] = Got(r.value)]
                     /\ firstExc' = firstExc
    /\ UNCHANGED <<app, history, pc, requests, idx, results, success_count, error_count,
                   response, callResult>>

\* Review analyzer: a call whose gather has already raised runs on to its end
\* (gather does not cancel the other awaitables); its outcome is dropped.
RevLateTaskDone ==
    /\ app = "review"
    /\ \E it \in inflight :
         /\ ~(pc = "await" /\ it[1] = idx /\ ~firstExc.raised)
         /\ inflight' = inflight \ {it}
    /\ UNCHANGED <<app, issued, history, pc, requests, idx, results, success_count, error_count,
                   gathered, firstExc, served, response, callResult>>

\* Review analyzer: the handler resumes from `await asyncio.gather(...)`.
RevResume ==
    /\ app = "review"
    /\ pc = "await"
    /\ \/ /\ ~firstExc.raised
          /\ \A t \in Tasks : gathered[t].done
          /\ results' = AppendResult(results, SuccessEntry(requests[idx], gathered))
          /\ success_count' = success_count + 1
          /\ error_count' = error_count
          /\ idx' = idx + 1
          /\ pc' = "loop"
          /\ response' = response
       \/ /\ firstExc.raised
          /\ CaughtInBatch(firstExc)
          /\ results' = AppendResult(results, ErrorEntry(requests[idx], firstExc))
          /\ error_count' = error_count + 1
          /\ success_count' = success_count
          /\ idx' = idx + 1
          /\ pc' = "loop"
          /\ response' = response
       \/ /\ firstExc.raised
          /\ ~CaughtInBatch(firstExc)
          /\ Escape
          /\ error_count' = error_count
    /\ gathered' = NoGather
    /\ firstExc' = NoExc
    /\ UNCHANGED <<app, issued, history, requests, inflight, served, callResult>>

\* the envelope each handler returns
SentimentEnvelope ==
    [kind |-> "batch", results |-> results, total |-> Len(requests),
     success_count |-> success_count]

ReviewEnvelope ==
    [kind |-> "batch", results |-> results, total_count |-> Len(requests),
     success_count |-> success_count, error_count |-> error_count]

\* The loop is over: the handler returns the envelope.
BatchReturn ==
    /\ pc = "loop"
    /\ idx > Len(requests)
    /\ response' = IF app = "sentiment" THEN SentimentEnvelope ELSE ReviewEnvelope
    /\ pc' = "done"
    /\ UNCHANGED <<app, issued, history, requests, idx, results, success_count, error_count,
                   gathered, firstExc, inflight, served, callResult>>

Next ==
    \/ Reject
    \/ Accept
    \/ SentSend
    \/ SentComplete
    \/ RevStart
    \/ RevTaskDone
    \/ RevLateTaskDone
    \/ RevResume
    \/ BatchReturn

Spec == BatchInit /\ [][Next]_vars

(***************************************************************************)
(* Claims about the batch endpoints (checked under Spec).                  *)
(***************************************************************************)
\* r is s without its leading and trailing whitespace
IsTrimOf(r, s) ==
    \E i \in 1..(Len(s) + 1) : \E j \in 0..Len(s) :
        /\ r = SubSeq(s, i, j)
        /\ \A k \in 1..(i - 1) : s[k] \in Whitespace
        /\ \A k \in (j + 1)..Len(s) : s[k] \in Whitespace
        /\ r # <<>> => (r[1] \notin Whitespace /\ r[Len(r)] \notin Whitespace)

Returned == pc = "done"

N == Len(requests)

\* the text a result entry echoes
EchoedText(entry) == IF app = "sentiment" THEN entry.text ELSE entry.review

\* the entry is marked failed
MarkedFailed(entry) == IF app = "sentiment" THEN ~entry.success ELSE ~entry.error.null

\* the number of entries marked failed
FailedEntries(rs) == Cardinality({ i \in 1..Len(rs) : MarkedFailed(rs[i]) })

\* the failure kinds a client raises on (review analyzer)
RaisingKinds == {"timeout", "conn"}

\* the message each backend gives a failure kind in a result entry
FailureMessage(kind) ==
    IF app = "sentiment"
    THEN CASE kind = "conn"    -> <<"Error: Cannot connect to Ollama">>
           [] kind = "timeout" -> <<"Error: Request timed out">>
           [] OTHER            -> <<"Error: ", "500 Server Error">>
    ELSE CASE kind = "conn" ->
                <<"503", ": ", "Could not connect to Ollama. Make sure it's running on localhost:11434">>
           [] kind = "timeout" ->
                <<"504", ": ", "Request timed out. The model is taking too long to respond.">>
           [] OTHER -> <<"Error">>

\* the entry carries the failure: it is marked failed, or holds the placeholder
\* "Error" in place of a task's value
ShowsFailure(entry) ==
    \/ MarkedFailed(entry)
    \/ /\ app = "review"
       /\ <<"Error">> \in {entry.sentiment, entry.topic, entry.summary}

\* C1: whatever failure the inference calls of an item produce, no exception
\* leaves the batch handler; the handler goes on to return a well-formed envelope
\* with one entry per item, the failing item's own entry carrying the failure and
\* the items after it having their entries too.
C1_BatchFailureIsolated ==
    /\ pc # "aborted"
    /\ pc \in {"loop", "wait", "await"} => ENABLED Next
    /\ Returned =>
         /\ response.kind = "batch"
         /\ Len(response.results) = N
         /\ \A i \in 1..N : served[i] # <<>> => ShowsFailure(response.results[i])

\* C1 witness: a review batch returned whose first item failed by a raised
\* exception and whose second item was analysed
C1_Witness ==
    /\ Returned
    /\ app = "review"
    /\ N = 2
    /\ served[1] = <<"timeout">>
    /\ ~response.results[1].error.null
    /\ served[2] = <<>>
    /\ response.results[2].error.null

\* C2: every returned envelope has total = length(results) and
\* success_count + error_count = total (in the sentiment analyzer, whose envelope
\* has no error_count field, the number of entries with success = false).
C2_BatchCounts ==
    Returned =>
        IF app = "sentiment"
        THEN /\ response.total = Len(response.results)
             /\ response.success_count + FailedEntries(response.results) = response.total
        ELSE /\ response.total_count = Len(response.results)
             /\ response.success_count + response.error_count = response.total_count
             /\ response.error_count = FailedEntries(response.results)

\* C2 witness: a sentiment batch returned with one success and one failure
C2_Witness ==
    /\ Returned
    /\ app = "sentiment"
    /\ N = 2
    /\ response.success_count = 1
    /\ FailedEntries(response.results) = 1

\* C3: results holds exactly one entry per submitted item, in request order:
\* entry i echoes the text of item i and is the outcome of item i's own calls
\* (failed, with that failure's message, exactly when item i's calls failed by
\* a failure the client surfaces).
C3_ResultsInRequestOrder ==
    Returned =>
        /\ Len(response.results) = N
        /\ \A i \in 1..N :
             LET entry == response.results[i]
                 log == served[i]
             IN  /\ IsTrimOf(Strip(EchoedText(entry)), requests[i].text)
                 /\ IF app = "sentiment"
                    THEN /\ entry.success = (log = <<>>)
                         /\ log # <<>> => entry.sentiment = FailureMessage(log[1])
                    ELSE /\ ~entry.error.null =
                              (log # <<>> /\ log[Len(log)] \in RaisingKinds)
                         /\ ~entry.error.null =>
                              entry.error.str = FailureMessage(log[Len(log)])

\* C3 witness: a batch of two different texts returned whose first item
\* succeeded and whose second failed
C3_Witness ==
    /\ Returned
    /\ app = "sentiment"
    /\ N = 2
    /\ requests[1].text # requests[2].text
    /\ response.results[1].success
    /\ ~response.results[2].success
    /\ served[2] = <<"conn">>

\* C4 as stated: the text echoed in entry i is exactly the text submitted for
\* item i, for every submitted string.
C4_EchoesSubmittedText ==
    Returned =>
        \A i \in 1..N : EchoedText(response.results[i]) = requests[i].text

\* C4 amended: the sentiment analyzer echoes in entry i exactly the text
\* submitted for item i; the review analyzer echoes the submitted text with its
\* leading and trailing whitespace stripped.
C4_EchoesTextStrippedInReview ==
    Returned =>
        \A i \in 1..N :
            IF app = "sentiment"
            THEN response.results[i].text = requests[i].text
            ELSE IsTrimOf(response.results[i].review, requests[i].text)

\* C4 witness: the review analyzer returned " ab " as "ab"
C4_Witness ==
    /\ Returned
    /\ app = "review"
    /\ requests[1].text = <<" ","a","b"," ">>
    /\ response.results[1].review = <<"a","b">>

\* the batch had exactly one item whose inference calls failed
OnlyItemFailed(k) ==
    /\ k \in 1..N
    /\ served[k] # <<>>
    /\ \A j \in 1..N : j # k => served[j] = <<>>

\* C5: a batch of N items in which the inference call of exactly one item k
\* fails (by any kind of failure) returns total = N, success_count = N - 1,
\* error_count = 1, entry k marked failed and every other entry successful.
C5_OneFailureOneError ==
    Returned =>
        \A k \in 1..N :
            OnlyItemFailed(k) =>
                /\ Len(response.results) = N
                /\ response.success_count = N - 1
                /\ app = "review" => response.error_count = 1
                /\ \A i \in 1..N : MarkedFailed(response.results[i]) = (i = k)

\* C6: in the review analyzer, an item one of whose task calls failed is marked
\* failed, its error is the message of the first such failure, and no value of
\* its other tasks is reported.
C6_ItemAllOrNothing ==
    app = "review" =>
        \A i \in 1..Len(results) :
            served[i] # <<>> =>
                /\ ~results[i].error.null
                /\ results[i].error.str = FailureMessage(served[i][1])
                /\ results[i].sentiment = <<"Error">>
                /\ results[i].topic = <<"Error">>
                /\ results[i].summary = <<"Error">>

\* C7: items are processed strictly sequentially: no inference request of a
\* later item is in flight together with a request of an earlier item.
C7_ItemsSequential ==
    \A a \in inflight : \A b \in inflight : a[1] = b[1]

(***************************************************************************)
(* One call of each backend's inference client, against every outcome of   *)
(* the inference server.                                                   *)
(***************************************************************************)
\* Pieces a model reply is made of.
Chunks == { <<"P","o","s","i","t","i","v","e">>,
            <<"N","E","G","A","T","I","V","E">>,
            <<"n","e","u","t","r","a","l">>,
            <<" ">>, <<".">>,
            <<"p","o","s","i">>, <<"t","i","v","e">>, <<"N","e","g","a">>,
            <<"O","K">> }

RECURSIVE RepliesOf(_)
RepliesOf(n) ==
    IF n = 0 THEN { <<>> }
    ELSE LET shorter == RepliesOf(n - 1)
         IN  shorter \cup { r \o c : r \in shorter, c \in Chunks }

Replies == RepliesOf(MaxChunks)

Outcomes ==
    { Outcome("ok", body) : body \in Replies }
        \cup { Outcome(k, <<>>) : k \in FailureKinds \cup {"nofield"} }

CallInit ==
    /\ app \in {"sentiment", "review", "summarizer", "frontend"}
    /\ requests \in IF app = "sentiment" THEN { <<Item(t, Null)>> : t \in Texts } ELSE { <<>> }
    /\ pc = "ready"
    /\ idx = 1
    /\ results = <<>>
    /\ success_count = 0
    /\ error_count = 0
    /\ gathered = NoGather
    /\ firstExc = NoExc
    /\ inflight = {}
    /\ served = Outcome("none", <<>>)
    /\ response = NONE
    /\ callResult = NoExc
    /\ issued = <<>>
    /\ history = <<>>

\* sentiment analyzer: analyze_text(text)
CallAnalyzeText ==
    /\ app = "sentiment"
    /\ pc = "ready"
    /\ \E out \in Outcomes :
         /\ served' = out
         /\ callResult' = analyze_text(requests[1].text, out)
    /\ pc' = "called"
    /\ UNCHANGED <<app, issued, history, requests, idx, results, success_count, error_count,
                   gathered, firstExc, inflight, response>>

\* review analyzer: await query_ollama(prompt)
CallQueryOllama ==
    /\ app = "review"
    /\ pc = "ready"
    /\ \E out \in Outcomes :
         /\ served' = out
         /\ callResult' = query_ollama(out)
    /\ pc' = "called"
    /\ UNCHANGED <<app, issued, history, requests, idx, results, success_count, error_count,
                   gathered, firstExc, inflight, response>>

\* summarizer: call_ollama(prompt)
CallCallOllama ==
    /\ app = "summarizer"
    /\ pc = "ready"
    /\ \E out \in Outcomes :
         /\ served' = out
         /\ callResult' = call_ollama(out)
    /\ pc' = "called"
    /\ UNCHANGED <<app, issued, history, requests, idx, results, success_count, error_count,
                   gathered, firstExc, inflight, response>>

\* sentiment analyzer frontend: get_sentiment_display(sentiment) renders a
\* sentiment string
CallSentimentDisplay ==
    /\ app = "frontend"
    /\ pc = "ready"
    /\ \E sentiment \in Replies :
         /\ served' = Outcome("shown", sentiment)
         /\ callResult' = Return(get_sentiment_display(sentiment))
    /\ pc' = "called"
    /\ UNCHANGED <<app, issued, history, requests, idx, results, success_count, error_count,
                   gathered, firstExc, inflight, response>>

CallNext ==
    \/ CallAnalyzeText
    \/ CallQueryOllama
    \/ CallCallOllama
    \/ CallSentimentDisplay

SpecCall == CallInit /\ [][CallNext]_vars

(***************************************************************************)
(* Claims about the inference clients and the sentiment normalisation      *)
(* (checked under SpecCall).                                               *)
(***************************************************************************)
Called(a) == pc = "called" /\ app = a

\* the reply holds word w at some position, letter case ignored
MentionsCI(s, w) ==
    \E i \in 1..Len(s) :
        /\ i + Len(w) - 1 <= Len(s)
        /\ \A j \in 1..Len(w) : LowerChar(s[i + j - 1]) = w[j]

LabelWords == { positive, negative, neutral }

LabelOf(w) ==
    CASE w = positive -> Positive
      [] w = negative -> Negative
      [] w = neutral  -> Neutral

\* C8 as stated: in every backend the inference client never raises to its
\* caller; a failed call comes back as a value.
C8_ClientNeverRaises ==
    pc = "called" => ~callResult.raised

\* C8 amended: the sentiment analyzer's client analyze_text never raises and
\* returns every failed call as a value with success = false and an "Error: ..."
\* message; the review analyzer's query_ollama raises HTTPException 504 / 503 on a
\* timeout / connection or transport error and returns the string "Error" on any
\* other failure; the summarizer's call_ollama raises HTTPException 503 / 504 / 500
\* on every failure.
C8_ClientFailureSurfacing ==
    /\ Called("sentiment") =>
         /\ ~callResult.raised
         /\ served.kind \in FailureKinds =>
              /\ callResult.value.success = FALSE
              /\ callResult.value.sentiment[1] \in
                   {"Error: Cannot connect to Ollama", "Error: Request timed out", "Error: "}
    /\ Called("review") /\ served.kind \in FailureKinds =>
         IF served.kind \in {"timeout", "conntimeout"}
         THEN callResult.raised /\ callResult.status = 504
         ELSE IF served.kind \in {"conn", "reqerr"}
         THEN callResult.raised /\ callResult.status = 503
         ELSE ~callResult.raised /\ callResult.value = <<"Error">>
    /\ Called("summarizer") /\ served.kind \in FailureKinds \cup {"nofield"} =>
         /\ callResult.raised
         /\ callResult.status \in {503, 504, 500}

\* C8 witness: analyze_text has returned a failed call as a value
C8_Witness ==
    /\ Called("sentiment")
    /\ served.kind = "status"
    /\ ~callResult.raised
    /\ callResult.value.success = FALSE

\* C9: a reply that holds exactly one of "positive", "negative", "neutral"
\* (letter case ignored) is normalised to that label, capitalised, and the item
\* is reported with success = true.
C9_SingleLabelNormalised ==
    Called("sentiment") /\ served.kind = "ok" =>
        \A w \in LabelWords :
            (/\ MentionsCI(served.body, w)
             /\ \A v \in LabelWords \ {w} : ~MentionsCI(served.body, v))
            => /\ ~callResult.raised
               /\ callResult.value.sentiment = LabelOf(w)
               /\ callResult.value.success = TRUE

\* C9 witness: the reply "Positive." came back as the label Positive, success true
C9_Witness ==
    /\ Called("sentiment")
    /\ served = Outcome("ok", <<"P","o","s","i","t","i","v","e",".">>)
    /\ callResult.value.sentiment = Positive
    /\ callResult.value.success = TRUE

\* C10: a reply that holds none of "positive", "negative", "neutral" (letter case
\* ignored) is returned with its surrounding whitespace trimmed and otherwise
\* unchanged.
C10_NoLabelPassThrough ==
    Called("sentiment") /\ served.kind = "ok"
        /\ (\A w \in LabelWords : ~MentionsCI(served.body, w))
    => /\ ~callResult.raised
       /\ IsTrimOf(callResult.value.sentiment, served.body)

\* C10 witness: a label-free reply with surrounding whitespace and capitals came
\* back trimmed
C10_Witness ==
    /\ Called("sentiment")
    /\ served = Outcome("ok", <<" ","O","K"," ">>)
    /\ callResult.value.sentiment = <<"O","K">>

\* the first of "positive", "negative", "neutral", in that order, the reply holds
FirstLabelWord(s) ==
    IF MentionsCI(s, positive) THEN positive
    ELSE IF MentionsCI(s, negative) THEN negative
    ELSE neutral

SeveralLabels(s) == Cardinality({ w \in LabelWords : MentionsCI(s, w) }) >= 2

DisplayClassOf(w) ==
    CASE w = positive -> "sentiment-positive"
      [] w = negative -> "sentiment-negative"
      [] w = neutral  -> "sentiment-neutral"

\* C11: a reply that holds more than one of the label words is normalised to
\* the first match in the order Positive, Negative, Neutral, wherever in the
\* reply each word stands; get_sentiment_display of the frontend classifies a
\* sentiment string in the same order.
C11_FirstLabelInFixedOrder ==
    /\ Called("sentiment") /\ served.kind = "ok" /\ SeveralLabels(served.body) =>
         /\ ~callResult.raised
         /\ callResult.value.sentiment = LabelOf(FirstLabelWord(served.body))
    /\ Called("frontend") /\ SeveralLabels(served.body) =>
         callResult.value[2] = DisplayClassOf(FirstLabelWord(served.body))

\* C11 witness: the reply "neutralNEGATIVEPositive", whose "positive" stands
\* last, came back as Positive
C11_Witness ==
    /\ Called("sentiment")
    /\ served = Outcome("ok", neutral \o <<"N","E","G","A","T","I","V","E">> \o Positive)
    /\ callResult.value.sentiment = Positive

\* the failure kind the client reported its failed call as
ReportedKind ==
    IF app = "sentiment" /\ callResult.value.sentiment = <<>>
    THEN "none"
    ELSE IF app = "sentiment"
    THEN CASE callResult.value.sentiment[1] = "Error: Cannot connect to Ollama"
                -> "ConnectionFailure"
           [] callResult.value.sentiment[1] = "Error: Request timed out" -> "Timeout"
           [] callResult.value.sentiment[1] = "Error: " -> "RemoteError"
           [] OTHER -> "none"
    ELSE CASE callResult.raised /\ callResult.status = 503 -> "ConnectionFailure"
           [] callResult.raised /\ callResult.status = 504 -> "Timeout"
           [] callResult.raised /\ callResult.status = 500 -> "RemoteError"
           [] OTHER -> "none"

FailureKindNames == {"ConnectionFailure", "Timeout", "RemoteError"}

\* a failed call of one of the three clients
FailedCall ==
    /\ pc = "called"
    /\ app \in {"sentiment", "review", "summarizer"}
    /\ served.kind \in FailureKinds

EmptyReply ==
    \/ served.kind = "nofield"
    \/ served.kind = "ok" /\ \A i \in 1..Len(served.body) : served.body[i] \in Whitespace

\* C27: normalisation does not raise, and an empty reply (or a body without
\* text) is normalised to the empty string: the sentiment analyzer returns it
\* as a successful result with sentiment "", the review analyzer returns "";
\* neither reports a ConnectionFailure, Timeout or RemoteError.
C27_EmptyReplyIsEmptyString ==
    /\ Called("sentiment") /\ served.kind \in {"ok", "nofield"} => ~callResult.raised
    /\ Called("review") /\ served.kind \in {"ok", "nofield"} => ~callResult.raised
    /\ Called("sentiment") /\ EmptyReply =>
         /\ callResult.value.sentiment = <<>>
         /\ callResult.value.success
         /\ ReportedKind = "none"
    /\ Called("review") /\ EmptyReply =>
         /\ callResult.value = <<>>
         /\ ReportedKind = "none"

C27_Witness ==
    /\ Called("review")
    /\ served.kind = "nofield"
    /\ callResult = Return(<<>>)

(***************************************************************************)
(* Further claims about the batch endpoints (checked under Spec).          *)
(***************************************************************************)
\* C12: the sentiment of every entry the review analyzer reports for a
\* successfully analysed item is one of the labels Positive, Negative, Neutral.
C12_ReviewSentimentIsLabel ==
    app = "review" =>
        \A i \in 1..Len(results) :
            results[i].error.null =>
                results[i].sentiment \in {Positive, Negative, Neutral}

\* C17: a batch is accepted only if it holds between 1 and 100 items, in
\* every batch endpoint: a handler that has started has a batch of that size.
C17_BatchSizeBounded ==
    pc \notin {"received", "rejected"} =>
        (Len(requests) >= MIN_BATCH /\ Len(requests) <= MAX_BATCH)

\* the item names no product: product_name is absent or the empty string
NoProduct(item) == item.product_name.null \/ item.product_name.str = <<>>

\* C18: for a review that names no product, each prompt names the product
\* "Product" where the product goes (no gap), and the entry of the review in the
\* results echoes "Product".
C18_ProductPlaceholder ==
    app = "review" =>
        /\ \A it \in inflight :
               NoProduct(requests[it[1]]) =>
                   /\ Len(it[3]) >= 1 + Len(Product)
                   /\ SubSeq(it[3], 2, 1 + Len(Product)) = Product
        /\ \A i \in 1..Len(results) :
               NoProduct(requests[i]) => results[i].product_name = Product

C18_Witness ==
    /\ app = "review"
    /\ \E it \in inflight :
           /\ requests[it[1]].product_name = Some(<<>>)
           /\ it[2] = "summary"
           /\ it[3] = <<"Summarize this review of the ">> \o Product
                          \o <<" in one concise sentence.\n\nReview: ">> \o <<"a","b">>
    /\ \E i \in 1..Len(results) :
           /\ requests[i].product_name = Null
           /\ results[i].product_name = Product

\* C20: during a batch of the review analyzer at most 3 inference requests
\* are in flight at any moment.
C20_AtMostThreeInFlight == app = "review" => Cardinality(inflight) <= 3

\* C21: the three calls of an item are joined with a barrier: once the entry
\* of an item is recorded in the results, none of its calls is still in flight.
C21_ItemJoinedBeforeRecorded ==
    app = "review" => \A it \in inflight : it[1] > Len(results)

\* C22: each prompt is posted at most once and a failed call is not retried:
\* no request is posted twice, and a batch of N items that has returned has
\* posted exactly 3N requests (review analyzer) or N requests (sentiment
\* analyzer), whatever the number of failures.
C22_OneRequestPerPrompt ==
    /\ \A i \in 1..Len(issued) : \A j \in 1..Len(issued) : issued[i] = issued[j] => i = j
    /\ Returned => Len(issued) = (IF app = "review" THEN 3 ELSE 1) * Len(requests)

C22_Witness ==
    /\ Returned
    /\ app = "review"
    /\ Len(requests) = 2
    /\ error_count = 2
    /\ Len(issued) = 6

\* the number of calls of item i the log shows ended with a non-success status
StatusFailures(i) == Cardinality({ k \in 1..Len(served[i]) : served[i][k] = "status" })

\* what query_ollama returns for task t of the item when the server replies
ValueOf(t, item) == Strip(ReplyTo(t, item))

\* C28: in the results of the review analyzer's analyze_batch each processed
\* item is counted once, in success_count or in error_count; the entries with
\* an error are as many as error_count and carry "Error" in sentiment, topic
\* and summary; an entry without error carries, field by field, what its own
\* three calls returned (the reply, or "Error" for a call query_ollama gave up).
C28_CountsMatchEntries ==
    app = "review" =>
        /\ success_count + error_count = Len(results)
        /\ Cardinality({ i \in 1..Len(results) : ~results[i].error.null }) = error_count
        /\ \A i \in 1..Len(results) :
               IF results[i].error.null
               THEN /\ results[i].sentiment \in {ValueOf("sentiment", requests[i]), <<"Error">>}
                    /\ results[i].topic \in {ValueOf("topic", requests[i]), <<"Error">>}
                    /\ results[i].summary \in {ValueOf("summary", requests[i]), <<"Error">>}
                    /\ StatusFailures(i) =
                           Cardinality({ v \in {<<1, results[i].sentiment>>,
                                                <<2, results[i].topic>>,
                                                <<3, results[i].summary>>} :
                                             v[2] = <<"Error">> })
               ELSE /\ results[i].sentiment = <<"Error">>
                    /\ results[i].topic = <<"Error">>
                    /\ results[i].summary = <<"Error">>

C28_Witness ==
    /\ app = "review"
    /\ Returned
    /\ Len(results) = 2
    /\ success_count = 1
    /\ error_count = 1
    /\ results[1].error.null
    /\ results[1].topic = <<"B","a","t","t","e","r","y">>
    /\ results[1].summary = <<"a","b","c">>
    /\ ~results[2].error.null

\* the reviews of the request that fail the field validation of ReviewItem
InvalidItems == { i \in 1..Len(requests) : ~ValidReviewItem(requests[i]) }

\* C30: a batch sent to the review analyzer with any review that fails field
\* validation (text under 3 or over 5000 characters, product name over 100) is
\* rejected whole with 422: the handler never starts, no request is posted to
\* the inference server and there is no result for any review, valid or not.
C30_InvalidItemRejectsBatch ==
    (app = "review" /\ InvalidItems /= {}) =>
        /\ pc \in {"received", "rejected"}
        /\ pc = "rejected" => response = [kind |-> "error", status |-> 422]
        /\ results = <<>>
        /\ issued = <<>>
        /\ inflight = {}
        /\ success_count = 0
        /\ error_count = 0

C30_Witness ==
    /\ app = "review"
    /\ pc = "rejected"
    /\ Len(requests) = 2
    /\ InvalidItems = {2}
    /\ issued = <<>>
    /\ results = <<>>

(***************************************************************************)
(* The single-request endpoints: the health checks of the three backends,  *)
(* POST /summarize/ and POST /summarize/pdf/ of the summarizer and         *)
(* POST /analyze/ of the review analyzer.                                  *)
(***************************************************************************)
\* What GET <base>/api/tags comes to: an HTTP response with a status code, or
\* an exception of the HTTP library.
ProbeStatuses == {200, 204, 404, 500}
ProbeFailures == {"conn", "conntimeout", "timeout", "reqerr"}

Probe(kind, status) == [url |-> "/api/tags", kind |-> kind, status |-> status, prompt |-> <<>>]

Probes ==
    { Probe("http", st) : st \in ProbeStatuses } \cup { Probe(k, 0) : k \in ProbeFailures }

\* requests.Response.ok: raise_for_status() would not raise
ResponseOk(status) == status < 400

\* review analyzer: check_ollama_status()
check_ollama_status(probe) == probe.kind = "http" /\ probe.status = 200

\* the answer of a handler that returned `body`
Ok(body) == [kind |-> "ok", status |-> 200, body |-> body]

\* the answer of a handler that raised HTTPException(status_code, detail), or
\* (status 500) any other exception
Failed(status, detail) == [kind |-> "error", status |-> status, body |-> detail]

\* health_check whose except clause names the connection errors only
health_check_except_connection(a, probe) ==
    IF probe.kind \in {"timeout", "reqerr"}
    THEN Failed(500, <<"Internal Server Error">>)
    ELSE Ok([api |-> "online",
             ollama_status |-> IF probe.kind = "http" /\ probe.status = 200
                               THEN "online" ELSE "offline"])

\* health_check of every backend reporting the inference server by
\* `status_code == 200`
health_check_status_200(a, probe) ==
    Ok([api |-> IF a = "sentiment" THEN "online" ELSE IF a = "review" THEN "ok" ELSE "healthy",
        ollama_status |->
            IF a = "summarizer"
            THEN IF probe.kind # "http" THEN "unreachable"
                 ELSE IF probe.status = 200 THEN "healthy" ELSE "unhealthy"
            ELSE IF probe.kind = "http" /\ probe.status = 200 THEN "online" ELSE "offline"])

\* GET /health (sentiment analyzer, summarizer), GET / (review analyzer).
\* `api` is the field the backend reports itself in: api_status, status, status.
health_check(a, probe) ==
    CASE a = "sentiment" ->
           Ok([api |-> "online",
               ollama_status |-> IF probe.kind = "http" /\ probe.status = 200
                                 THEN "online" ELSE "offline"])
      [] a = "review" ->
           Ok([api |-> "ok",
               ollama_status |-> IF check_ollama_status(probe) THEN "online" ELSE "offline"])
      [] a = "summarizer" ->
           Ok([api |-> "healthy",
               ollama_status |-> IF probe.kind # "http" THEN "unreachable"
                                 ELSE IF ResponseOk(probe.status) THEN "healthy"
                                 ELSE "unhealthy"])

\* One request to the inference server: POST /api/generate with `prompt`,
\* coming to outcome `out`.
Generate(prompt, out) ==
    [url |-> "/api/generate", kind |-> out.kind, status |-> 0, prompt |-> prompt]

\* What a handler has done when it ends: the requests it sent to the inference
\* server, and its answer to the HTTP caller.
Handled(sent, answer) == [sent |-> sent, answer |-> answer]

\* MIN_TEXT_LENGTH, MAX_TEXT_LENGTH of the summarizer (their defaults)
MIN_TEXT_LENGTH == 10
MAX_TEXT_LENGTH == 10000

\* the keys of PROMPTS
Modes == {"brief", "detailed", "bullets"}

\* PROMPTS[mode].format(text=text)
PromptFor(mode, text) ==
    CASE mode = "brief"    -> <<"Summarize this text in 2-3 sentences:\n\n">> \o text
      [] mode = "detailed" ->
           <<"Provide a comprehensive summary of this text, covering all main points:\n\n">>
               \o text
      [] mode = "bullets"  ->
           <<"Summarize this text as bullet points (use - for each point):\n\n">> \o text

\* Languages detect(text) may name; a detection that fails counts as "en".
Languages == {"en", "es", "zh-tw", "tl"}

\* LANGUAGE_PROMPTS: the codes it maps, and the instruction of each
MappedCodes ==
    {"en", "es", "fr", "de", "it", "pt", "zh-cn", "zh-tw", "ja", "ko", "ar", "hi", "ur"}

LANGUAGE_PROMPTS(lang_code) ==
    CASE lang_code = "en" -> <<>>
      [] lang_code = "es" -> <<"Respond in Spanish. ">>
      [] lang_code = "fr" -> <<"Respond in French. ">>
      [] lang_code = "de" -> <<"Respond in German. ">>
      [] lang_code = "it" -> <<"Respond in Italian. ">>
      [] lang_code = "pt" -> <<"Respond in Portuguese. ">>
      [] lang_code \in {"zh-cn", "zh-tw"} -> <<"Respond in Chinese. ">>
      [] lang_code = "ja" -> <<"Respond in Japanese. ">>
      [] lang_code = "ko" -> <<"Respond in Korean. ">>
      [] lang_code = "ar" -> <<"Respond in Arabic. ">>
      [] lang_code = "hi" -> <<"Respond in Hindi. ">>
      [] lang_code = "ur" -> <<"Respond in Urdu. ">>

\* get_language_instruction with the empty instruction for a code not mapped
get_language_instruction_no_fallback(lang_code) ==
    IF lang_code \in MappedCodes THEN LANGUAGE_PROMPTS(lang_code) ELSE <<>>

\* LANGUAGE_PROMPTS.get(lang_code, "Respond in the same language as the input text. ")
get_language_instruction(lang_code) ==
    IF lang_code \in MappedCodes
    THEN LANGUAGE_PROMPTS(lang_code)
    ELSE <<"Respond in the same language as the input text. ">>

\* validate_text accepting a text by its length before strip()
validate_text_unstripped(text) ==
    IF Len(text) < MIN_TEXT_LENGTH
    THEN Raise(400, <<"Text is too short. Minimum 10 characters required.">>)
    ELSE IF Len(text) > MAX_TEXT_LENGTH
    THEN Raise(400, <<"Text is too long. Maximum 10000 characters allowed.">>)
    ELSE NoExc

validate_text(text) ==
    IF Len(Strip(text)) < MIN_TEXT_LENGTH
    THEN Raise(400, <<"Text is too short. Minimum 10 characters required.">>)
    ELSE IF Len(text) > MAX_TEXT_LENGTH
    THEN Raise(400, <<"Text is too long. Maximum 10000 characters allowed.">>)
    ELSE NoExc

\* SummaryResponse(summary=summary.strip(), ...)
SummaryResponse(summary, mode, lang, text) ==
    [summary |-> Strip(summary), mode |-> mode, language |-> lang,
     original_length |-> Len(text), summary_length |-> Len(Strip(summary))]

\* the common tail of summarize and summarize_pdf, from validate_text on
Summarized(text, mode, lang, out) ==
    LET v      == validate_text(text)
        prompt == get_language_instruction(lang) \o PromptFor(mode, text)
        r      == call_ollama(out)
    IN  IF v.raised THEN Handled(<<>>, Failed(v.status, v.detail))
        ELSE IF mode \notin Modes
        THEN Handled(<<>>, Failed(400, <<"Invalid mode. Choose from: brief, detailed, bullets">>))
        ELSE Handled(<<Generate(prompt, out)>>,
                     IF r.raised THEN Failed(r.status, r.detail)
                     ELSE Ok(SummaryResponse(r.value, mode, lang, text)))

\* POST /summarize/
summarize(req, lang, out) == Summarized(req.text, req.mode, lang, out)

\* str.endswith
EndsWith(s, w) == Len(s) >= Len(w) /\ SubSeq(s, Len(s) - Len(w) + 1, Len(s)) = w

\* POST /summarize/pdf/: req.readable says whether PdfReader reads the upload,
\* req.text is the text its pages give
summarize_pdf(req, lang, out) ==
    IF ~EndsWith(Lower(req.filename), <<".","p","d","f">>)
    THEN Handled(<<>>, Failed(400, <<"Only PDF files are supported.">>))
    ELSE IF ~req.readable
    THEN Handled(<<>>, Failed(400, <<"Failed to read PDF: ", "invalid pdf">>))
    ELSE IF Strip(req.text) = <<>>
    THEN Handled(<<>>, Failed(400,
            <<"Could not extract text from PDF. The file might be scanned or image-based.">>))
    ELSE Summarized(req.text, req.mode, lang, out)

\* POST /analyze/ of the review analyzer.  outs: what the inference server
\* does with the three calls; first: the call whose exception reaches the
\* handler first, when any raises.
analyze_review(req, outs, first) ==
    LET text    == ReviewText(req)
        product == ProductOf(req)
        order   == <<"sentiment", "topic", "summary">>
        sent    == [i \in 1..3 |-> Generate(create_prompt(order[i], text, product),
                                            outs[order[i]])]
        r       == [t \in Tasks |-> query_ollama(outs[t])]
    IN  IF ~ValidReviewItem(req)
        THEN Handled(<<>>, Failed(422, <<"Unprocessable Entity">>))
        ELSE Handled(sent,
                     IF \E t \in Tasks : r[t].raised
                     THEN Failed(r[first].status, r[first].detail)
                     ELSE Ok([sentiment |-> r["sentiment"].value,
                              topic |-> r["topic"].value,
                              summary |-> r["summary"].value]))

\* a string of n characters c
Rep(c, n) == [i \in 1..n |-> c]

Req(endpoint, text, mode, filename, readable, product_name) ==
    [endpoint |-> endpoint, text |-> text, mode |-> mode, filename |-> filename,
     readable |-> readable, product_name |-> product_name]

\* Texts around the length limits of the summarizer.
SummaryTexts ==
    { <<>>, Rep(" ", MIN_TEXT_LENGTH + 2), Rep("x", MIN_TEXT_LENGTH - 1),
      <<" ">> \o Rep("x", MIN_TEXT_LENGTH - 1) \o <<" ">>,
      Rep("x", MIN_TEXT_LENGTH), <<" ">> \o Rep("x", MIN_TEXT_LENGTH) \o <<"\n">>,
      Rep("x", MAX_TEXT_LENGTH), Rep("x", MAX_TEXT_LENGTH + 1) }

PdfTexts == { <<>>, <<" ", "\n">>, Rep("x", MIN_TEXT_LENGTH - 1), Rep("x", MIN_TEXT_LENGTH) }

FileNames == { <<"a",".","p","d","f">>, <<"A",".","P","D","F">>, <<"a",".","t","x","t">>,
               <<"p","d","f">> }

\* Texts and product names around the limits of ReviewRequest.
ReviewTexts ==
    { <<"a","b","c">>, <<" ","a","b"," ">>, <<"a","b">>, Rep(" ", MIN_REVIEW_LENGTH),
      Rep("x", MAX_REVIEW_LENGTH), Rep("x", MAX_REVIEW_LENGTH + 1) }

ReviewProducts == ProductNames \cup { Some(Rep("x", MAX_PRODUCT_LENGTH + 1)) }

RequestsTo(a) ==
    { Req("health", <<>>, "", <<>>, TRUE, Null) }
      \cup
    CASE a = "summarizer" ->
           { Req("summarize", t, m, <<>>, TRUE, Null) :
                 t \in SummaryTexts, m \in Modes \cup {"short"} }
             \cup
           { Req("summarize_pdf", t, m, f, rd, Null) :
                 t \in PdfTexts, m \in {"brief", "short"}, f \in FileNames, rd \in BOOLEAN }
      [] a = "review" ->
           { Req("analyze", t, "", <<>>, TRUE, p) : t \in ReviewTexts, p \in ReviewProducts }
      [] OTHER -> {}

\* What the inference server does with a POST /api/generate of these endpoints.
ServerOutcomes ==
    { Outcome("ok", BatchReply) } \cup { Outcome(k, <<>>) : k \in FailureKinds \cup {"nofield"} }

EndpointInit ==
    /\ app \in {"sentiment", "review", "summarizer"}
    /\ requests \in { <<r>> : r \in RequestsTo(app) }
    /\ pc = "received"
    /\ idx = 1
    /\ results = <<>>
    /\ success_count = 0
    /\ error_count = 0
    /\ gathered = NoGather
    /\ firstExc = NoExc
    /\ inflight = {}
    /\ served = <<>>
    /\ response = NONE
    /\ callResult = NoExc
    /\ issued = <<>>
    /\ history = <<>>

\* the handler has run: `h` is what it did
Answer(h) ==
    /\ served' = h.sent
    /\ response' = h.answer
    /\ pc' = "done"
    /\ UNCHANGED <<app, issued, history, requests, idx, results, success_count, error_count,
                   gathered, firstExc, inflight, callResult>>

HealthCheck ==
    /\ pc = "received"
    /\ requests[1].endpoint = "health"
    /\ \E probe \in Probes : Answer(Handled(<<probe>>, health_check(app, probe)))

Summarize ==
    /\ pc = "received"
    /\ requests[1].endpoint = "summarize"
    /\ \E lang \in Languages, out \in ServerOutcomes :
         Answer(summarize(requests[1], lang, out))

SummarizePdf ==
    /\ pc = "received"
    /\ requests[1].endpoint = "summarize_pdf"
    /\ \E lang \in Languages, out \in ServerOutcomes :
         Answer(summarize_pdf(requests[1], lang, out))

AnalyzeReview ==
    /\ pc = "received"
    /\ requests[1].endpoint = "analyze"
    /\ \E outs \in [Tasks -> ServerOutcomes], first \in Tasks :
         /\ (\E t \in Tasks : query_ollama(outs[t]).raised) => query_ollama(outs[first]).raised
         /\ Answer(analyze_review(requests[1], outs, first))

EndpointNext ==
    \/ HealthCheck
    \/ Summarize
    \/ SummarizePdf
    \/ AnalyzeReview

SpecEndpoint == EndpointInit /\ [][EndpointNext]_vars

(***************************************************************************)
(* Claims about the single-request endpoints (checked under SpecEndpoint). *)
(***************************************************************************)
Done(endpoint) == pc = "done" /\ requests[1].endpoint = endpoint

\* the health response reports the inference server as alive
ReportsAlive == response.body.ollama_status \in {"online", "healthy"}

\* C13: the health check never raises: whatever the probe comes to, it answers
\* normally and reports the API as up; when the probe raised (unreachable,
\* timeout, any exception) it reports the inference server as not alive.
C13_HealthNeverRaises ==
    Done("health") =>
        /\ response.kind = "ok"
        /\ response.status = 200
        /\ response.body.api \in {"online", "ok", "healthy"}
        /\ served[1].kind # "http" => ~ReportsAlive

C13_Witness ==
    /\ Done("health")
    /\ app = "summarizer"
    /\ served[1].kind = "timeout"
    /\ response = Ok([api |-> "healthy", ollama_status |-> "unreachable"])

\* C14 as stated: in every backend the health check reports the inference
\* server as alive if and only if the probe returned status 200.
C14_AliveIffStatus200 ==
    Done("health") =>
        (ReportsAlive <=> (served[1].kind = "http" /\ served[1].status = 200))

\* C14: the health check reports the inference server as alive if and only if
\* the probe returned status 200 (sentiment analyzer, review analyzer), or any
\* status below 400 (summarizer).
C14_AliveIffProbeOk ==
    Done("health") =>
        (ReportsAlive <=>
            /\ served[1].kind = "http"
            /\ IF app = "summarizer" THEN served[1].status < 400
                                     ELSE served[1].status = 200)

C14_Witness ==
    /\ Done("health")
    /\ app = "summarizer"
    /\ served[1].kind = "http"
    /\ served[1].status = 204
    /\ response.body.ollama_status = "healthy"

\* the request fails the validation of its endpoint
FailsValidation(req) ==
    LET short   == Len(Strip(req.text)) < 10
        long    == Len(req.text) > 10000
        badmode == req.mode \notin {"brief", "detailed", "bullets"}
    IN  CASE req.endpoint = "summarize" -> short \/ long \/ badmode
          [] req.endpoint = "summarize_pdf" ->
               \/ ~EndsWith(Lower(req.filename), <<".","p","d","f">>)
               \/ ~req.readable
               \/ Strip(req.text) = <<>>
               \/ short \/ long \/ badmode
          [] req.endpoint = "analyze" ->
               \/ Len(req.text) < 3
               \/ Len(req.text) > 5000
               \/ (~req.product_name.null /\ Len(req.product_name.str) > 100)
          [] OTHER -> FALSE

SentKinds == { served[i].kind : i \in 1..Len(served) }

\* C16: an error response maps the failure kind to the status code: validation
\* failure 400, inference server unreachable 503, inference timeout 504, any
\* other unexpected failure 500.
C16_StatusByFailureKind ==
    pc = "done" /\ requests[1].endpoint # "health" =>
        /\ FailsValidation(requests[1]) => response.status = 400
        /\ (SentKinds # {} /\ SentKinds \subseteq {"conn"}) => response.status = 503
        /\ (SentKinds # {} /\ SentKinds \subseteq {"timeout"}) => response.status = 504
        /\ (SentKinds # {} /\ SentKinds \subseteq {"status", "badjson"}) =>
               response.status = 500

\* the prompt the handler of the request builds from the empty text, for the
\* i-th request it sends
EmptyTextPrompts(req, i) ==
    IF req.endpoint = "analyze"
    THEN { create_prompt(<<"sentiment", "topic", "summary">>[i], <<>>, p) :
               p \in {Product, <<"T","V">>} }
    ELSE { get_language_instruction(l) \o PromptFor(m, <<>>) : l \in Languages, m \in Modes }

\* C19: the text put into a prompt is never empty: no request sent to the
\* inference server carries the prompt of the empty text.
C19_PromptTextNonEmpty ==
    pc = "done" /\ requests[1].endpoint # "health" =>
        \A i \in 1..Len(served) : served[i].prompt \notin EmptyTextPrompts(requests[1], i)

\* the instruction the summarizer puts before the template, per detected code
InstructionFor(lang) ==
    CASE lang = "en"    -> <<>>
      [] lang = "es"    -> <<"Respond in Spanish. ">>
      [] lang = "zh-tw" -> <<"Respond in Chinese. ">>
      [] lang = "tl"    -> <<"Respond in the same language as the input text. ">>

\* the mode template up to the place of the text
TemplateFor(mode) ==
    CASE mode = "brief"    -> <<"Summarize this text in 2-3 sentences:\n\n">>
      [] mode = "detailed" ->
           <<"Provide a comprehensive summary of this text, covering all main points:\n\n">>
      [] mode = "bullets"  ->
           <<"Summarize this text as bullet points (use - for each point):\n\n">>

\* C24: the prompt the summarizer sends is the instruction of the detected
\* language code (the mapped one, or "respond in the same language" for a code
\* that is not mapped), then the template of the mode, then the text verbatim.
C24_SummarizerPrompt ==
    pc = "done" /\ requests[1].endpoint \in {"summarize", "summarize_pdf"} /\ served # <<>> =>
        /\ Len(served) = 1
        /\ \E lang \in Languages :
               /\ served[1].prompt =
                      InstructionFor(lang) \o TemplateFor(requests[1].mode) \o requests[1].text
               /\ response.kind = "ok" => response.body.language = lang

C24_Witness ==
    /\ Done("summarize")
    /\ response.kind = "ok"
    /\ response.body.language = "tl"
    /\ served[1].prompt =
           <<"Respond in the same language as the input text. ",
             "Summarize this text in 2-3 sentences:\n\n", " ">> \o Rep("x", 10) \o <<"\n">>

(***************************************************************************)
(* The frontends: the session history of each, and the analysis handlers   *)
(* of the sentiment analyzer's frontend.                                   *)
(***************************************************************************)
\* what the history of each frontend keeps
Capacity(a) ==
    CASE a = "sentiment"  -> 50
      [] a = "summarizer" -> 5
      [] a = "review"     -> 10

\* text[:n] + "..." if len(text) > n else text
Preview(text, n) == IF Len(text) > n THEN SubSeq(text, 1, n) \o <<"...">> ELSE text

\* history[-cap:], the entries at the end
KeepLast(h, cap) == IF Len(h) > cap THEN SubSeq(h, Len(h) - cap + 1, Len(h)) ELSE h

\* history[:cap]
Keep(h, cap) == IF Len(h) > cap THEN SubSeq(h, 1, cap) ELSE h

\* datetime.now(): the clock ticks once per entry; it restarts with an empty
\* history
Now(h) == IF h = <<>> THEN 1 ELSE h[1].timestamp + 1

\* sentiment analyzer frontend: add_to_history(text, sentiment)
sentiment_add_to_history(h, text, sentiment) ==
    Keep(<<[timestamp |-> Now(h), text |-> Preview(text, 100), full_text |-> text,
            sentiment |-> sentiment]>> \o h, 50)

\* summarizer frontend: add_to_history(text_preview, summary, mode, language)
summarizer_add_to_history(h, text_preview, summary, mode, language) ==
    Keep(<<[timestamp |-> Now(h), preview |-> Preview(text_preview, 50),
            summary |-> summary, mode |-> mode, language |-> language]>> \o h, 5)

\* review analyzer frontend: add_to_history(review_text, product_name, result)
review_add_to_history(h, review_text, product_name, result) ==
    Keep(<<[timestamp |-> Now(h), product |-> product_name,
            review |-> Preview(review_text, 50),
            sentiment |-> result.sentiment, topic |-> result.topic]>> \o h, 10)

\* What a request of a frontend to its backend comes to: an HTTP response, or
\* an exception of the HTTP library.
\* the JSON body of an error answer: {"detail": ...}
Detail(d) == [detail |-> d]

Replied(status, body) == [kind |-> "http", status |-> status, body |-> body]
Unanswered(kind) == [kind |-> kind, status |-> 0, body |-> Detail(<<>>)]

\* what the inference server does while the backend serves a frontend
FrontKinds == {"ok", "conn", "timeout", "status"}

\* the answers of the sentiment analyzer's POST /analyze/json to `text`
SingleReplies(text) ==
    { Replied(200, analyze_text(text, Outcome(k, BatchReply)).value) : k \in FrontKinds }
        \cup { Replied(500, Detail(<<"Internal Server Error">>)), Unanswered("conn"), Unanswered("timeout") }

\* the answers of the sentiment analyzer's POST /analyze/batch to `texts`
BatchReplies(texts) ==
    { Replied(200, [results |-> [i \in 1..Len(texts) |->
                                    analyze_text(texts[i], Outcome(ks[i], BatchReply)).value]])
          : ks \in [1..Len(texts) -> FrontKinds] }
        \cup { Replied(500, Detail(<<"Internal Server Error">>)), Unanswered("conn"), Unanswered("timeout") }

\* sentiment analyzer frontend: analyze_single(text)
analyze_single(text, reply) ==
    IF reply.kind = "http"
    THEN IF reply.status = 200 THEN reply.body
         ELSE SentimentEntry(text, <<"Error: Unknown">>, FALSE)
    ELSE IF reply.kind = "conn"
    THEN SentimentEntry(text, <<"Error: API not running">>, FALSE)
    ELSE SentimentEntry(text, <<"Error: ", ExcText(reply.kind)>>, FALSE)

\* sentiment analyzer frontend: analyze_batch(texts)
analyze_batch(texts, reply) ==
    IF reply.kind = "http" /\ reply.status = 200
    THEN reply.body.results
    ELSE [i \in 1..Len(texts) |-> SentimentEntry(texts[i], <<"Error">>, FALSE)]

\* the handlers adding a result to the history whatever its success
AddIfSuccessAlways(h, r) == sentiment_add_to_history(h, r.text, r.sentiment)

\* if r.get("success", False): add_to_history(r["text"], r["sentiment"])
AddIfSuccess(h, r) ==
    IF r.success THEN sentiment_add_to_history(h, r.text, r.sentiment) ELSE h

\* for r in results: if r.get("success", False): add_to_history(...)
RECURSIVE AddAll(_, _)
AddAll(h, rs) == IF rs = <<>> THEN h ELSE AddAll(AddIfSuccess(h, Head(rs)), Tail(rs))

\* the text typed into each frontend
FrontText(a) ==
    CASE a = "sentiment"  -> <<"a","b","c">>
      [] a = "summarizer" -> Rep("x", 60)
      [] a = "review"     -> <<"a","b","c">>

\* the answers of the summarizer's POST /summarize/ to `text`
SummaryReplies(text, mode) ==
    { LET a == summarize(Req("summarize", text, mode, <<>>, TRUE, Null), "en",
                         Outcome(k, BatchReply)).answer
      IN  Replied(a.status, IF a.kind = "ok" THEN a.body ELSE Detail(a.body)) :
              k \in FrontKinds }
        \cup { Unanswered("conn"), Unanswered("timeout") }

\* summarizer frontend: summarize_text(text, mode)
summarize_text(reply) ==
    IF reply.kind = "http"
    THEN IF ResponseOk(reply.status)
         THEN [success |-> TRUE, data |-> reply.body, error |-> <<>>]
         ELSE [success |-> FALSE, data |-> <<>>, error |-> reply.body.detail]
    ELSE IF reply.kind = "conn"
    THEN [success |-> FALSE, data |-> <<>>,
          error |-> <<"Cannot connect to backend. Please ensure the server is running.">>]
    ELSE [success |-> FALSE, data |-> <<>>,
          error |-> <<"Request timed out. The text might be too long.">>]

\* the answers of the review analyzer's POST /analyze/ to `text`
ReviewReplies(text) ==
    { LET a == analyze_review(Req("analyze", text, "", <<>>, TRUE, Null),
                              [t \in Tasks |-> Outcome(k, BatchReply)], "sentiment").answer
      IN  Replied(a.status, IF a.kind = "ok" THEN a.body ELSE Detail(a.body)) :
              k \in {"ok", "conn", "timeout"} }
        \cup { Unanswered("conn") }

\* the answers of the review analyzer's POST /analyze_batch/
ReviewBatchReplies ==
    { Replied(200, [results |-> <<>>]), Replied(422, Detail(<<"Unprocessable Entity">>)), Unanswered("conn") }

FrontInit ==
    /\ app \in {"sentiment", "summarizer", "review"}
    /\ requests = <<>>
    /\ pc = "idle"
    /\ idx = 1
    /\ results = <<>>
    /\ success_count = 0
    /\ error_count = 0
    /\ gathered = NoGather
    /\ firstExc = NoExc
    /\ inflight = {}
    /\ served = <<>>
    /\ response = Unanswered("none")
    /\ callResult = NoExc
    /\ issued = <<>>
    /\ history = <<>>

\* the script has run to its end: `rs` was displayed, the history is `h`
Rerun(reply, rs, h) ==
    /\ Now(history) <= Capacity(app) + MaxOverflow
    /\ response' = reply
    /\ results' = rs
    /\ history' = h
    /\ UNCHANGED <<app, pc, requests, idx, success_count, error_count, gathered,
                   firstExc, inflight, served, callResult, issued>>

\* sentiment analyzer frontend: "Analyze Sentiment" pressed on a text that is
\* not blank
SentimentSingle ==
    /\ app = "sentiment"
    /\ \E reply \in SingleReplies(FrontText(app)) :
         LET result == analyze_single(FrontText(app), reply)
         IN  Rerun(reply, <<result>>, AddIfSuccess(history, result))

\* sentiment analyzer frontend: "Analyze All" pressed on some texts
SentimentBatch ==
    /\ app = "sentiment"
    /\ \E n \in 1..MaxBatch :
         LET texts == [i \in 1..n |-> FrontText(app)]
         IN  \E reply \in BatchReplies(texts) :
                LET rs == analyze_batch(texts, reply)
                IN  Rerun(reply, rs, AddAll(history, rs))

\* summarizer frontend: "Summarize" pressed
SummarizerSummarize ==
    /\ app = "summarizer"
    /\ \E reply \in SummaryReplies(FrontText(app), "brief") :
         LET result == summarize_text(reply)
         IN  Rerun(reply, <<>>,
                   IF result.success
                   THEN summarizer_add_to_history(history, FrontText(app),
                            result.data.summary, result.data.mode, result.data.language)
                   ELSE history)

\* review analyzer frontend: "Analyze" pressed, no product name typed
ReviewAnalyze ==
    /\ app = "review"
    /\ \E reply \in ReviewReplies(FrontText(app)) :
         Rerun(reply, <<>>,
               IF reply.kind = "http" /\ reply.status = 200
               THEN review_add_to_history(history, FrontText(app), Product, reply.body)
               ELSE history)

\* review analyzer frontend: "Start Batch Analysis" pressed
ReviewBatch ==
    /\ app = "review"
    /\ \E reply \in ReviewBatchReplies :
         Rerun(reply, <<>>,
               IF reply.kind = "http" /\ reply.status = 200
               THEN review_add_to_history(history,
                        <<"Analysis of ", "1", " reviews from ", "reviews.csv">>,
                        <<"Batch Analysis">>,
                        [sentiment |-> <<"Mixed">>, topic |-> <<"1", " Items">>])
               ELSE history)

\* "Clear History" pressed (the summarizer and the review analyzer show the
\* button only while the history is not empty)
ClearHistory ==
    /\ app = "sentiment" \/ history # <<>>
    /\ history' = <<>>
    /\ UNCHANGED <<app, pc, requests, idx, results, success_count, error_count, gathered,
                   firstExc, inflight, served, response, callResult, issued>>

FrontNext ==
    \/ SentimentSingle
    \/ SentimentBatch
    \/ SummarizerSummarize
    \/ ReviewAnalyze
    \/ ReviewBatch
    \/ ClearHistory

SpecFront == FrontInit /\ [][FrontNext]_vars

(***************************************************************************)
(* Claims about the frontends (checked under SpecFront).                   *)
(***************************************************************************)
\* the number of entries a run of the script is to add: one per successful
\* result displayed (sentiment analyzer), one per successful answer (the others)
DueAdds(a, rs, reply) ==
    CASE a = "sentiment"  -> Cardinality({ i \in 1..Len(rs) : rs[i].success })
      [] a = "summarizer" -> IF reply.kind = "http" /\ reply.status < 400 THEN 1 ELSE 0
      [] a = "review"     -> IF reply.kind = "http" /\ reply.status = 200 THEN 1 ELSE 0

\* h2 is h1 after k entries were added: the k newest entries first, newest at
\* the head, then the entries of h1 in their order, the oldest ones dropped
\* beyond the capacity
AddedTo(h1, h2, k, cap) ==
    /\ Len(h2) = (IF Len(h1) + k > cap THEN cap ELSE Len(h1) + k)
    /\ \A i \in 1..k : h2[i].timestamp = Now(h1) + k - i
    /\ \A i \in (k + 1)..Len(h2) : h2[i] = h1[i - k]

\* C25: each history is a size-bounded buffer: its length never exceeds its
\* capacity (50, 5, 10), its entries are ordered newest first, and an add puts
\* the new entry at the head and, when the history was full, drops exactly the
\* oldest entry.
C25_HistoryBounded ==
    [][ /\ Len(history') <= Capacity(app)
        /\ \A i \in 1..(Len(history') - 1) :
               history'[i].timestamp > history'[i + 1].timestamp
        /\ \/ history' = <<>>
           \/ AddedTo(history, history', DueAdds(app, results', response'), Capacity(app))
      ]_vars

C25_Witness ==
    /\ app = "sentiment"
    /\ Len(history) = 50
    /\ history[1].timestamp = 51
    /\ history[50].timestamp = 2

\* C29: the history of the sentiment analyzer's frontend takes only results
\* reported with success = true: every entry a step adds is the text and the
\* sentiment of a successful result displayed by that step, and a step that
\* displays failures only (a failed analysis, a failed batch request) leaves
\* the history as it was.
C29_HistoryOnlySuccesses ==
    [][ app = "sentiment" =>
          /\ \A i \in 1..Len(history') :
                 (\A j \in 1..Len(history) : history[j] # history'[i]) =>
                     \E n \in 1..Len(results') :
                         /\ results'[n].success
                         /\ results'[n].text = history'[i].full_text
                         /\ results'[n].sentiment = history'[i].sentiment
          /\ (results' # results /\ \A n \in 1..Len(results') : ~results'[n].success) =>
                 history' = history
      ]_vars

C29_Witness ==
    /\ app = "sentiment"
    /\ Len(results) = 2
    /\ ~results[1].success
    /\ results[1].sentiment = <<"Error: Cannot connect to Ollama">>
    /\ results[2].success
    /\ Len(history) = 1
    /\ history[1].sentiment = results[2].sentiment

(***************************************************************************)
(* Termination: the batch endpoints again, and POST /analyze/ of the V1    *)
(* review analyzer, with the scheduling each one has.                      *)
(***************************************************************************)
\* V1: the three prompts, in the order they are sent
V1Order == <<"sentiment", "topic", "summary">>

V1Prompt(task, text) ==
    CASE task = "sentiment" ->
           <<"What is the sentiment (Positive, Neutral, or Negative) of the following review?\n\n">>
               \o text
      [] task = "topic" ->
           <<"What is the main issue or topic discussed in this review?\n\n">> \o text
      [] task = "summary" ->
           <<"Summarize the following review in one short sentence:\n\n">> \o text

\* V1 query_ollama: no timeout, no except clause
v1_query_ollama(out) ==
    IF out.kind = "ok" THEN Return(Strip(out.body)) ELSE Raise(500, <<ExcText(out.kind)>>)

\* what the inference server may answer a call of V1 with (V1 sets no timeout)
V1Kinds == {"ok", "conn", "status", "nofield"}

LiveInit ==
    /\ app \in {"sentiment", "review", "v1"}
    /\ requests \in IF app = "v1" THEN { <<Item(t, Null)>> : t \in Texts } ELSE RequestsOf(app)
    /\ pc = IF app = "v1" THEN "v1_next" ELSE "received"
    /\ idx = 1
    /\ results = <<>>
    /\ success_count = 0
    /\ error_count = 0
    /\ gathered = NoGather
    /\ firstExc = NoExc
    /\ inflight = {}
    /\ served = [i \in 1..Len(requests) |-> <<>>]
    /\ response = NONE
    /\ callResult = NONE
    /\ issued = <<>>
    /\ history = <<>>

\* V1: query_ollama posts the next prompt and blocks
V1Send ==
    /\ app = "v1"
    /\ pc = "v1_next"
    /\ idx <= Len(V1Order)
    /\ LET req == <<1, V1Order[idx], V1Prompt(V1Order[idx], requests[1].text)>>
       IN  /\ inflight' = inflight \cup {req}
           /\ issued' = Append(issued, req)
    /\ pc' = "v1_wait"
    /\ UNCHANGED <<app, history, requests, idx, results, success_count, error_count,
                   gathered, firstExc, served, response, callResult>>

\* V1: the inference server answers the call; an exception leaves the handler
V1Complete ==
    /\ app = "v1"
    /\ pc = "v1_wait"
    /\ \E kind \in V1Kinds :
         LET r == v1_query_ollama(Outcome(kind, BatchReply))
         IN  /\ served' = [served EXCEPT ![1] = Logged(@, kind)]
             /\ IF r.raised
                THEN /\ pc' = "aborted"
                     /\ response' = [kind |-> "error", status |-> 500]
                     /\ UNCHANGED <<gathered, idx>>
                ELSE /\ gathered' = [gathered EXCEPT ![V1Order[idx]] = Got(r.value)]
                     /\ idx' = idx + 1
                     /\ pc' = "v1_next"
                     /\ response' = response
    /\ inflight' = {}
    /\ UNCHANGED <<app, history, issued, requests, results, success_count, error_count,
                   firstExc, callResult>>

\* V1: the handler returns the three values
V1Return ==
    /\ app = "v1"
    /\ pc = "v1_next"
    /\ idx > Len(V1Order)
    /\ response' = [kind |-> "ok", status |-> 200,
                    body |-> [t \in Tasks |-> gathered[t].value]]
    /\ pc' = "done"
    /\ UNCHANGED <<app, history, issued, requests, idx, results, success_count,
                   error_count, gathered, firstExc, inflight, served, callResult>>

LiveNext ==
    \/ Next
    \/ V1Send
    \/ V1Complete
    \/ V1Return

\* The handlers take their own steps, and a call posted with a timeout ends by
\* its answer or by the timeout; a call of V1 ends only if the server answers.
SpecLive ==
    /\ LiveInit
    /\ [][LiveNext]_vars
    /\ WF_vars(Next)
    /\ WF_vars(V1Send)
    /\ WF_vars(V1Return)

\* C26: no inference call hangs, so every request to a backend, single or
\* batch, the V1 review analyzer included, comes to its end.
C26_EveryCallTerminates == <>(pc \in {"done", "rejected", "aborted"})

====
